---- MODULE Spec2Model ----
(***************************************************************************)
(* A model of the DNS forwarding server: the name codec, the record and    *)
(* header codecs, the message assembler, the forwarding client and the     *)
(* server loop.  A byte is a number in 0..255, a buffer (&[u8], Vec<u8>)   *)
(* is a sequence of bytes indexed from 0 in the code and from 1 here, and  *)
(* a String is the sequence of its UTF-8 bytes.                            *)
(***************************************************************************)
EXTENDS Integers, Sequences, FiniteSets, TLC

VARIABLES
    \* ---- name codec (dns_question_and_answer.rs) ----
    name_in,      \* the name handed to encode_domain_name, or NoName
    enc,          \* "none", "ok" or "panic": how encode_domain_name ended
    bytes,        \* the buffer parse_domain_name reads
    start,        \* the offset parse_domain_name was entered with
    pd,           \* the locals of parse_domain_name's loop, and its result
    ptrs,         \* history: the number of compression pointers followed
    first_ptr,    \* history: the offset of the first pointer met, or -1
    \* ---- header codec (dns_header.rs, create_response_header) ----
    req_header,   \* the request header given to create_response_header
    resp_header,  \* the header it returned, or NoHeader
    \* ---- server loop and forwarder (server.rs, forwarder.rs) ----
    pc,           \* where DnsServer::run is
    resolver,     \* self.resolver: TRUE when an upstream address is configured
    dgram,        \* the datagram recv_from returned for the current request
    request,      \* what parse_request returned for it, or NoRequest
    qidx,         \* the number of questions already forwarded and answered
    answers,      \* forward_to_resolver's accumulator `answers`
    sent,         \* history: the upstream queries sent for this request
    replies,      \* history: the upstream datagrams received for this request
    parsed,       \* history: the answers decoded from each of those datagrams
    response,     \* the bytes sent to the client for this request, or NoBytes
    log,          \* the error eprintln! reported for this request, or ""
    panic,        \* the panic message that ended the process, or ""
    \* ---- DnsAnswer and DnsFlags called on their own ----
    rec_in,       \* the call made on DnsAnswer and its arguments, or NoCall
    rec_out,      \* what that call returned, or NoCall
    flags_in,     \* a flags word or a DnsFlags value, or NoCall
    flags_mid,    \* flags_in converted by from_u16 or to_u16, or NoCall
    flags_out     \* flags_mid converted back, or NoCall

nameVars == <<name_in, enc, bytes, start, pd, ptrs, first_ptr>>
flagVars == <<req_header, resp_header>>
srvVars  == <<pc, resolver, dgram, request, qidx, answers, sent, replies,
              parsed, response, log, panic>>
unitVars == <<rec_in, rec_out, flags_in, flags_mid, flags_out>>
vars     == <<nameVars, flagVars, srvVars, unitVars>>

(***************************************************************************)
(* Bytes, integers and slices                                              *)
(***************************************************************************)
Byte == 0..255

\* bytes[i] of the code (0-based); the caller has checked i < bytes.len()
At(buf, i) == buf[i + 1]

\* bytes[i] panics in Rust when i >= bytes.len()
CanIndex(buf, i) == i < Len(buf)

\* &bytes[lo..hi] panics in Rust when hi > bytes.len() (or lo > hi)
CanSlice(buf, lo, hi) == lo <= hi /\ hi <= Len(buf)

\* &bytes[lo..hi]
Slice(buf, lo, hi) == SubSeq(buf, lo + 1, hi)

\* u16::from_be_bytes([b0, b1])
u16_from_be_bytes(b0, b1) == b0 * 256 + b1

\* u16::to_be_bytes
u16_to_be_bytes(x) == <<(x \div 256) % 256, x % 256>>

\* u32::from_be_bytes([b0, b1, b2, b3])
u32_from_be_bytes(b0, b1, b2, b3) == ((b0 * 256 + b1) * 256 + b2) * 256 + b3

\* u32::to_be_bytes
u32_to_be_bytes(x) ==
    <<(x \div 16777216) % 256, (x \div 65536) % 256, (x \div 256) % 256, x % 256>>

\* n copies of byte b
Rep(b, n) == [i \in 1..n |-> b]

\* the concatenation of a sequence of sequences
RECURSIVE Flatten(_)
Flatten(ss) == IF ss = <<>> THEN <<>> ELSE Head(ss) \o Flatten(Tail(ss))

(***************************************************************************)
(* std::str::from_utf8: whether a byte sequence is well-formed UTF-8       *)
(***************************************************************************)
IsCont(b) == b >= 128 /\ b <= 191

RECURSIVE IsUtf8(_)
IsUtf8(s) ==
    IF s = <<>> THEN TRUE
    ELSE LET b == s[1]
             n == Len(s)
         IN  IF b < 128 THEN IsUtf8(Tail(s))
             ELSE IF b >= 194 /\ b <= 223
                  THEN n >= 2 /\ IsCont(s[2]) /\ IsUtf8(SubSeq(s, 3, n))
             ELSE IF b >= 224 /\ b <= 239
                  THEN /\ n >= 3
                       /\ IsCont(s[2])
                       /\ (b = 224 => s[2] >= 160)
                       /\ (b = 237 => s[2] <= 159)
                       /\ IsCont(s[3])
                       /\ IsUtf8(SubSeq(s, 4, n))
             ELSE IF b >= 240 /\ b <= 244
                  THEN /\ n >= 4
                       /\ IsCont(s[2])
                       /\ (b = 240 => s[2] >= 144)
                       /\ (b = 244 => s[2] <= 143)
                       /\ IsCont(s[3])
                       /\ IsCont(s[4])
                       /\ IsUtf8(SubSeq(s, 5, n))
             ELSE FALSE

(***************************************************************************)
(* Name codec: parse_domain_name                                           *)
(***************************************************************************)
DOT == 46   \* '.'

max_jumps == 5

ErrOffsetOutOfBounds == "Offset out of bounds while parsing domain name"
ErrIncompletePointer == "Incomplete pointer in domain name"
ErrTooManyJumps      == "Too many jumps while parsing domain name"
ErrLabelBeyondBuffer == "Label extends beyond buffer"
ErrInvalidUtf8       == "Invalid UTF-8 in domain label"
PanicIndex           == "index out of bounds"
PanicSlice           == "range end index out of range for slice"

\* labels.join(".")
RECURSIVE Join(_)
Join(labels) ==
    IF Len(labels) = 0 THEN <<>>
    ELSE IF Len(labels) = 1 THEN labels[1]
    ELSE labels[1] \o <<DOT>> \o Join(Tail(labels))

\* the locals of parse_domain_name on entry
ParseStart(offset) ==
    [st |-> "run", offset |-> offset, labels |-> <<>>, jumped |-> FALSE,
     jump_offset |-> offset, jumps |-> 0, err |-> "", name |-> <<>>,
     final_offset |-> 0]

\* return Err(msg)
ParseErr(s, msg) == [s EXCEPT !.st = "err", !.err = msg]

\* an indexing or slicing panic inside the loop
ParsePanic(s, msg) == [s EXCEPT !.st = "panic", !.err = msg]

\* the code after the loop: the final offset and the joined name
ParseFinish(s) ==
    [s EXCEPT !.st = "ok",
              !.final_offset = IF s.jumped THEN s.jump_offset ELSE s.offset,
              !.name = IF Len(s.labels) = 0 THEN <<DOT>> ELSE Join(s.labels)]

\* if !jumped { jump_offset = offset + 2 }, with the test dropped: every jump
\* moves the return offset
NextJumpOffset_everyJump(s) == s.offset + 2

\* if !jumped { jump_offset = offset + 2 }: the value of jump_offset after a
\* pointer met with the locals s
NextJumpOffset(s) == IF ~s.jumped THEN s.offset + 2 ELSE s.jump_offset

\* the jump guard off by one: the fifth pointer is refused
JumpLimitExceeded_offByOne(jumps) == jumps >= max_jumps

\* if jumps > max_jumps
JumpLimitExceeded(jumps) == jumps > max_jumps

\* one iteration of parse_domain_name's loop, from the locals s
ParseIter(buf, s) ==
    IF s.offset >= Len(buf) THEN ParseErr(s, ErrOffsetOutOfBounds)
    ELSE IF ~CanIndex(buf, s.offset) THEN ParsePanic(s, PanicIndex)
    ELSE LET length == At(buf, s.offset) IN
         \* (length & 0xC0) == 0xC0
         IF length >= 192
         THEN IF s.offset + 1 >= Len(buf) THEN ParseErr(s, ErrIncompletePointer)
              ELSE IF ~CanIndex(buf, s.offset + 1) THEN ParsePanic(s, PanicIndex)
              ELSE LET \* bytes[offset] & 0x3F is length % 64
                       pointer == u16_from_be_bytes(length % 64, At(buf, s.offset + 1))
                       t == [s EXCEPT !.jump_offset = NextJumpOffset(s),
                                      !.offset = pointer,
                                      !.jumped = TRUE,
                                      !.jumps = s.jumps + 1]
                   IN  IF JumpLimitExceeded(t.jumps) THEN ParseErr(t, ErrTooManyJumps) ELSE t
         ELSE LET off == s.offset + 1 IN
              IF length = 0 THEN ParseFinish([s EXCEPT !.offset = off])
              ELSE IF off + length > Len(buf) THEN ParseErr(s, ErrLabelBeyondBuffer)
              ELSE IF ~CanSlice(buf, off, off + length) THEN ParsePanic(s, PanicSlice)
              ELSE LET label == Slice(buf, off, off + length) IN
                   IF ~IsUtf8(label) THEN ParseErr(s, ErrInvalidUtf8)
                   ELSE [s EXCEPT !.labels = Append(@, label),
                                  !.offset = off + length]

\* the loop run to its end
RECURSIVE ParseLoop(_, _)
ParseLoop(buf, s) == IF s.st # "run" THEN s ELSE ParseLoop(buf, ParseIter(buf, s))

\* parse_domain_name(bytes, offset): st "ok" with name and final_offset,
\* st "err" with err, or st "panic"
parse_domain_name(buf, offset) == ParseLoop(buf, ParseStart(offset))

(***************************************************************************)
(* Name codec: encode_domain_name                                          *)
(***************************************************************************)
MaxLabelLen == 63

PanicLabelTooLong == "Label too long"

\* the index of the first '.' of s, or 0 when it has none
FirstDot(s) ==
    IF \E i \in 1..Len(s) : s[i] = DOT
    THEN CHOOSE i \in 1..Len(s) : s[i] = DOT /\ \A j \in 1..(i - 1) : s[j] # DOT
    ELSE 0

\* name.split('.'): the pieces between the dots, empty ones included
RECURSIVE Split(_)
Split(s) ==
    LET d == FirstDot(s) IN
    IF d = 0 THEN <<s>>
    ELSE <<SubSeq(s, 1, d - 1)>> \o Split(SubSeq(s, d + 1, Len(s)))

\* the for loop of encode_domain_name over the labels still to encode
RECURSIVE EncodeLabels(_, _)
EncodeLabels(labels, encoded) ==
    IF labels = <<>> THEN [kind |-> "ok", bytes |-> Append(encoded, 0)]
    ELSE LET label == Head(labels) IN
         IF Len(label) = 0 THEN EncodeLabels(Tail(labels), encoded)
         ELSE IF Len(label) > MaxLabelLen
              THEN [kind |-> "panic", bytes |-> <<>>]
         ELSE EncodeLabels(Tail(labels), encoded \o <<Len(label)>> \o label)

\* encode_domain_name with the length byte left out of each label
encode_domain_name_noLength(name) ==
    IF name = <<DOT>> THEN [kind |-> "ok", bytes |-> <<0>>]
    ELSE [kind |-> "ok", bytes |-> Append(Flatten(Split(name)), 0)]

\* encode_domain_name(name): kind "ok" with the bytes, or kind "panic"
encode_domain_name(name) ==
    IF name = <<DOT>> THEN [kind |-> "ok", bytes |-> <<0>>]
    ELSE EncodeLabels(Split(name), <<>>)

(***************************************************************************)
(* Results: Ok((val, next)), Err(msg), or a panic that ends the process    *)
(***************************************************************************)
Ok(v, n)   == [kind |-> "ok", val |-> v, next |-> n, err |-> ""]
Err(msg)   == [kind |-> "err", val |-> <<>>, next |-> 0, err |-> msg]
Panic(msg) == [kind |-> "panic", val |-> <<>>, next |-> 0, err |-> msg]

\* the Result<(String, usize), String> of parse_domain_name
NameResult(buf, offset) ==
    LET Of(s) == IF s.st = "ok" THEN Ok(s.name, s.final_offset)
                 ELSE IF s.st = "err" THEN Err(s.err)
                 ELSE Panic(s.err)
    IN  Of(parse_domain_name(buf, offset))

(***************************************************************************)
(* Record codec: DnsQuestion and DnsAnswer                                 *)
(***************************************************************************)
ErrQuestionTooSmall == "Buffer too small for question type and class"
ErrAnswerTooSmall   == "Buffer too small for answer fields"
ErrRdataTooSmall    == "Buffer too small for RDATA"

QuestionFixedLen == 4
AnswerFixedLen   == 10

\* DnsQuestion::from_bytes(bytes, offset)
DnsQuestion_from_bytes(buf, offset) ==
    LET \* let (name, new_offset) = parse_domain_name(bytes, offset)?
        After(r) ==
            IF r.kind # "ok" THEN r
            ELSE LET new_offset == r.next IN
                 IF new_offset + QuestionFixedLen > Len(buf) THEN Err(ErrQuestionTooSmall)
                 ELSE IF ~CanIndex(buf, new_offset + 3) THEN Panic(PanicIndex)
                 ELSE Ok([name   |-> r.val,
                          qtype  |-> u16_from_be_bytes(At(buf, new_offset),
                                                       At(buf, new_offset + 1)),
                          qclass |-> u16_from_be_bytes(At(buf, new_offset + 2),
                                                       At(buf, new_offset + 3))],
                         new_offset + QuestionFixedLen)
    IN  After(NameResult(buf, offset))

\* DnsQuestion::to_bytes: kind "ok" with the bytes, or kind "panic"
DnsQuestion_to_bytes(q) ==
    LET After(e) ==
            IF e.kind = "panic" THEN e
            ELSE [kind |-> "ok",
                  bytes |-> e.bytes \o u16_to_be_bytes(q.qtype)
                            \o u16_to_be_bytes(q.qclass)]
    IN  After(encode_domain_name(q.name))

\* DnsAnswer::from_bytes with the RDATA bounds check dropped and the slice
\* clamped to the buffer
DnsAnswer_from_bytes_clampRdata(buf, offset) ==
    LET After(r) ==
            IF r.kind # "ok" THEN r
            ELSE LET new_offset == r.next IN
                 IF new_offset + AnswerFixedLen > Len(buf) THEN Err(ErrAnswerTooSmall)
                 ELSE LET rdlength == u16_from_be_bytes(At(buf, new_offset + 8),
                                                        At(buf, new_offset + 9))
                          data_offset == new_offset + AnswerFixedLen
                          stop == IF data_offset + rdlength > Len(buf) THEN Len(buf)
                                  ELSE data_offset + rdlength
                      IN  Ok([name     |-> r.val,
                              rtype    |-> u16_from_be_bytes(At(buf, new_offset),
                                                             At(buf, new_offset + 1)),
                              rclass   |-> u16_from_be_bytes(At(buf, new_offset + 2),
                                                             At(buf, new_offset + 3)),
                              ttl      |-> u32_from_be_bytes(At(buf, new_offset + 4),
                                                             At(buf, new_offset + 5),
                                                             At(buf, new_offset + 6),
                                                             At(buf, new_offset + 7)),
                              rdlength |-> rdlength,
                              rdata    |-> Slice(buf, data_offset, stop)],
                             stop)
    IN  After(NameResult(buf, offset))

\* DnsAnswer::from_bytes(bytes, offset)
DnsAnswer_from_bytes(buf, offset) ==
    LET \* let (name, new_offset) = parse_domain_name(bytes, offset)?
        After(r) ==
            IF r.kind # "ok" THEN r
            ELSE LET new_offset == r.next IN
                 IF new_offset + AnswerFixedLen > Len(buf) THEN Err(ErrAnswerTooSmall)
                 ELSE IF ~CanIndex(buf, new_offset + 9) THEN Panic(PanicIndex)
                 ELSE LET rdlength == u16_from_be_bytes(At(buf, new_offset + 8),
                                                        At(buf, new_offset + 9))
                          data_offset == new_offset + AnswerFixedLen
                      IN  IF data_offset + rdlength > Len(buf) THEN Err(ErrRdataTooSmall)
                          ELSE IF ~CanSlice(buf, data_offset, data_offset + rdlength)
                               THEN Panic(PanicSlice)
                          ELSE Ok([name     |-> r.val,
                                   rtype    |-> u16_from_be_bytes(At(buf, new_offset),
                                                                  At(buf, new_offset + 1)),
                                   rclass   |-> u16_from_be_bytes(At(buf, new_offset + 2),
                                                                  At(buf, new_offset + 3)),
                                   ttl      |-> u32_from_be_bytes(At(buf, new_offset + 4),
                                                                  At(buf, new_offset + 5),
                                                                  At(buf, new_offset + 6),
                                                                  At(buf, new_offset + 7)),
                                   rdlength |-> rdlength,
                                   rdata    |-> Slice(buf, data_offset,
                                                      data_offset + rdlength)],
                                  data_offset + rdlength)
    IN  After(NameResult(buf, offset))

\* DnsAnswer::to_bytes: kind "ok" with the bytes, or kind "panic"
DnsAnswer_to_bytes(a) ==
    LET After(e) ==
            IF e.kind = "panic" THEN e
            ELSE [kind |-> "ok",
                  bytes |-> e.bytes \o u16_to_be_bytes(a.rtype) \o u16_to_be_bytes(a.rclass)
                            \o u32_to_be_bytes(a.ttl) \o u16_to_be_bytes(a.rdlength)
                            \o a.rdata]
    IN  After(encode_domain_name(a.name))

RecordType_A     == 1
RecordType_AAAA  == 28
RecordClass_IN   == 1

\* DnsAnswer::new(name, rtype, rclass, ttl, rdata)
DnsAnswer_new(name, rtype, rclass, ttl, rdata) ==
    [name |-> name, rtype |-> rtype, rclass |-> rclass, ttl |-> ttl,
     rdlength |-> Len(rdata) % 65536, rdata |-> rdata]

\* DnsAnswer::new_a_record(name, ttl, ip)
new_a_record(name, ttl, ip) ==
    DnsAnswer_new(name, RecordType_A, RecordClass_IN, ttl, ip)

\* DnsAnswer::new_aaaa_record(name, ttl, ip)
new_aaaa_record(name, ttl, ip) ==
    DnsAnswer_new(name, RecordType_AAAA, RecordClass_IN, ttl, ip)

(***************************************************************************)
(* Header codec: DnsHeader and DnsFlags                                    *)
(***************************************************************************)
HeaderLen == 12

ErrHeaderTooSmall == "Buffer too small for DNS header"

\* DnsHeader::from_bytes(bytes)
DnsHeader_from_bytes(b) ==
    IF Len(b) < HeaderLen THEN Err(ErrHeaderTooSmall)
    ELSE Ok([id               |-> u16_from_be_bytes(At(b, 0), At(b, 1)),
             flags            |-> u16_from_be_bytes(At(b, 2), At(b, 3)),
             question_count   |-> u16_from_be_bytes(At(b, 4), At(b, 5)),
             answer_count     |-> u16_from_be_bytes(At(b, 6), At(b, 7)),
             authority_count  |-> u16_from_be_bytes(At(b, 8), At(b, 9)),
             additional_count |-> u16_from_be_bytes(At(b, 10), At(b, 11))],
            HeaderLen)

\* DnsHeader::to_bytes
DnsHeader_to_bytes(h) ==
    u16_to_be_bytes(h.id) \o u16_to_be_bytes(h.flags)
    \o u16_to_be_bytes(h.question_count) \o u16_to_be_bytes(h.answer_count)
    \o u16_to_be_bytes(h.authority_count) \o u16_to_be_bytes(h.additional_count)

\* bit n of a 16-bit word: (flags & (1 << n)) != 0
Bit(flags, n) == (flags \div (2 ^ n)) % 2 = 1

\* DnsFlags::from_u16(flags)
DnsFlags_from_u16(flags) ==
    [qr     |-> Bit(flags, 15),
     opcode |-> (flags \div 2048) % 16,
     aa     |-> Bit(flags, 10),
     tc     |-> Bit(flags, 9),
     rd     |-> Bit(flags, 8),
     ra     |-> Bit(flags, 7),
     z      |-> (flags \div 16) % 8,
     rcode  |-> flags % 16]

\* DnsFlags::to_u16 writing the reserved Z bits as zero
DnsFlags_to_u16_zeroZ(f) ==
      (IF f.qr THEN 32768 ELSE 0)
    + (f.opcode % 16) * 2048
    + (IF f.aa THEN 1024 ELSE 0)
    + (IF f.tc THEN 512 ELSE 0)
    + (IF f.rd THEN 256 ELSE 0)
    + (IF f.ra THEN 128 ELSE 0)
    + (f.rcode % 16)

\* DnsFlags::to_u16: the fields are masked to disjoint bit ranges, so the
\* bitwise or of the code is a sum
DnsFlags_to_u16(f) ==
      (IF f.qr THEN 32768 ELSE 0)
    + (f.opcode % 16) * 2048
    + (IF f.aa THEN 1024 ELSE 0)
    + (IF f.tc THEN 512 ELSE 0)
    + (IF f.rd THEN 256 ELSE 0)
    + (IF f.ra THEN 128 ELSE 0)
    + (f.z % 8) * 16
    + (f.rcode % 16)

(***************************************************************************)
(* Message assembler (dns_message.rs)                                      *)
(***************************************************************************)
\* the for loop of parse_request: `left` questions still to decode
RECURSIVE ParseQuestions(_, _, _, _)
ParseQuestions(buf, offset, left, questions) ==
    LET \* let (question, new_offset) = DnsQuestion::from_bytes(buf, offset)?
        After(r) ==
            IF r.kind # "ok" THEN r
            ELSE ParseQuestions(buf, r.next, left - 1, Append(questions, r.val))
    IN  IF left = 0 THEN Ok(questions, offset)
        ELSE After(DnsQuestion_from_bytes(buf, offset))

\* parse_request(buf): val is [header, questions]
parse_request(buf) ==
    \* &buf[0..12]
    LET Questions(h, qs) ==
            IF qs.kind # "ok" THEN qs
            ELSE Ok([header |-> h.val, questions |-> qs.val], qs.next)
        Header(h) ==
            IF h.kind # "ok" THEN Err("Failed to parse header: " \o h.err)
            ELSE Questions(h, ParseQuestions(buf, HeaderLen, h.val.question_count, <<>>))
    IN  IF ~CanSlice(buf, 0, HeaderLen) THEN Panic(PanicSlice)
        ELSE Header(DnsHeader_from_bytes(Slice(buf, 0, HeaderLen)))

RcodeNoError        == 0
RcodeNotImplemented == 4

\* create_response_header echoing the whole request flags word with QR set
create_response_header_echoFlags(request_header, answer_count) ==
    [id               |-> request_header.id,
     flags            |-> DnsFlags_to_u16([DnsFlags_from_u16(request_header.flags)
                                           EXCEPT !.qr = TRUE]),
     question_count   |-> request_header.question_count,
     answer_count     |-> answer_count,
     authority_count  |-> 0,
     additional_count |-> 0]

\* create_response_header taking answer_count from the request header
create_response_header_echoCounts(request_header, answer_count) ==
    LET request_flags == DnsFlags_from_u16(request_header.flags)
        response_flags ==
            [qr |-> TRUE, opcode |-> request_flags.opcode, aa |-> FALSE,
             tc |-> FALSE, rd |-> request_flags.rd, ra |-> FALSE, z |-> 0,
             rcode |-> IF request_flags.opcode = 0 THEN RcodeNoError
                       ELSE RcodeNotImplemented]
    IN  [id               |-> request_header.id,
         flags            |-> DnsFlags_to_u16(response_flags),
         question_count   |-> request_header.question_count,
         answer_count     |-> request_header.answer_count,
         authority_count  |-> 0,
         additional_count |-> 0]

\* create_response_header(request_header, answer_count)
create_response_header(request_header, answer_count) ==
    LET request_flags == DnsFlags_from_u16(request_header.flags)
        response_flags ==
            [qr |-> TRUE, opcode |-> request_flags.opcode, aa |-> FALSE,
             tc |-> FALSE, rd |-> request_flags.rd, ra |-> FALSE, z |-> 0,
             rcode |-> IF request_flags.opcode = 0 THEN RcodeNoError
                       ELSE RcodeNotImplemented]
    IN  [id               |-> request_header.id,
         flags            |-> DnsFlags_to_u16(response_flags),
         question_count   |-> request_header.question_count,
         answer_count     |-> answer_count,
         authority_count  |-> 0,
         additional_count |-> 0]

\* for question in questions { response.extend(question.to_bytes()) }
RECURSIVE ExtendQuestions(_, _)
ExtendQuestions(acc, questions) ==
    LET After(e) ==
            IF e.kind = "panic" THEN e
            ELSE ExtendQuestions(acc \o e.bytes, Tail(questions))
    IN  IF questions = <<>> THEN [kind |-> "ok", bytes |-> acc]
        ELSE After(DnsQuestion_to_bytes(Head(questions)))

\* for answer in answers { response.extend(answer.to_bytes()) }
RECURSIVE ExtendAnswers(_, _)
ExtendAnswers(acc, ans) ==
    LET After(e) ==
            IF e.kind = "panic" THEN e
            ELSE ExtendAnswers(acc \o e.bytes, Tail(ans))
    IN  IF ans = <<>> THEN [kind |-> "ok", bytes |-> acc]
        ELSE After(DnsAnswer_to_bytes(Head(ans)))

\* build_response(header, questions, answers): kind "ok" with the bytes, or
\* kind "panic"
build_response(header, questions, ans) ==
    LET After(qs) == IF qs.kind = "panic" THEN qs ELSE ExtendAnswers(qs.bytes, ans)
    IN  After(ExtendQuestions(DnsHeader_to_bytes(header), questions))

(***************************************************************************)
(* Local answers (local.rs)                                                *)
(***************************************************************************)
LocalTtl == 60

LocalAddress == <<8, 8, 8, 8>>

\* create_response_answers answering with the type and class that were asked
create_response_answers_echoType(questions) ==
    [i \in 1..Len(questions) |->
        DnsAnswer_new(questions[i].name, questions[i].qtype, questions[i].qclass,
                      LocalTtl, LocalAddress)]

\* create_response_answers(questions)
create_response_answers(questions) ==
    [i \in 1..Len(questions) |-> new_a_record(questions[i].name, LocalTtl, LocalAddress)]

(***************************************************************************)
(* Forwarding client (forwarder.rs): the pure parts                        *)
(***************************************************************************)
QueryFlags == 256   \* 0x0100: RD = 1

\* the second for loop of parse_answers_from_response
RECURSIVE ParseAnswers(_, _, _, _)
ParseAnswers(buf, offset, left, acc) ==
    LET \* let (answer, new_offset) = DnsAnswer::from_bytes(buf, offset)?
        After(r) ==
            IF r.kind # "ok" THEN r
            ELSE ParseAnswers(buf, r.next, left - 1, Append(acc, r.val))
    IN  IF left = 0 THEN Ok(acc, offset)
        ELSE After(DnsAnswer_from_bytes(buf, offset))

\* parse_answers_from_response(buf): val is the list of answers
parse_answers_from_response(buf) ==
    \* &buf[0..12]
    LET \* the first for loop has skipped the question section
        Skipped(h, qs) ==
            IF qs.kind # "ok" THEN qs
            ELSE ParseAnswers(buf, qs.next, h.val.answer_count, <<>>)
        Header(h) ==
            IF h.kind # "ok" THEN Err("Failed to parse response header: " \o h.err)
            ELSE Skipped(h, ParseQuestions(buf, HeaderLen, h.val.question_count, <<>>))
    IN  IF ~CanSlice(buf, 0, HeaderLen) THEN Panic(PanicSlice)
        ELSE Header(DnsHeader_from_bytes(Slice(buf, 0, HeaderLen)))

\* build_single_question_query with the flags word's bytes swapped
build_single_question_query_flagsSwapped(original_id, question) ==
    LET header == [id |-> original_id, flags |-> 1, question_count |-> 1,
                   answer_count |-> 0, authority_count |-> 0, additional_count |-> 0]
        After(q) ==
            IF q.kind = "panic" THEN q
            ELSE [kind |-> "ok", bytes |-> DnsHeader_to_bytes(header) \o q.bytes]
    IN  After(DnsQuestion_to_bytes(question))

\* build_single_question_query(original_id, question): kind "ok" with the
\* bytes, or kind "panic"
build_single_question_query(original_id, question) ==
    LET header == [id |-> original_id, flags |-> QueryFlags, question_count |-> 1,
                   answer_count |-> 0, authority_count |-> 0, additional_count |-> 0]
        After(q) ==
            IF q.kind = "panic" THEN q
            ELSE [kind |-> "ok", bytes |-> DnsHeader_to_bytes(header) \o q.bytes]
    IN  After(DnsQuestion_to_bytes(question))

(***************************************************************************)
(* Values that stand for "nothing yet"                                     *)
(***************************************************************************)
NoName    == <<-1>>
NoBytes   == <<-1>>
NoHeader  == [id |-> -1, flags |-> -1, question_count |-> -1, answer_count |-> -1,
              authority_count |-> -1, additional_count |-> -1]
NoRequest == [header |-> NoHeader, questions |-> <<>>]
ParseIdle == [ParseStart(0) EXCEPT !.st = "idle"]

NameIdle ==
    /\ name_in = NoName
    /\ enc = "none"
    /\ bytes = <<>>
    /\ start = 0
    /\ pd = ParseIdle
    /\ ptrs = 0
    /\ first_ptr = -1

FlagsIdle ==
    /\ req_header = NoHeader
    /\ resp_header = NoHeader

ServerIdle ==
    /\ pc = "off"
    /\ resolver = FALSE
    /\ dgram = NoBytes
    /\ request = NoRequest
    /\ qidx = 0
    /\ answers = <<>>
    /\ sent = <<>>
    /\ replies = <<>>
    /\ parsed = <<>>
    /\ response = NoBytes
    /\ log = ""
    /\ panic = ""

NoCall == [op |-> "none"]

UnitIdle ==
    /\ rec_in = NoCall
    /\ rec_out = NoCall
    /\ flags_in = NoCall
    /\ flags_mid = NoCall
    /\ flags_out = NoCall

(***************************************************************************)
(* The name codec as a state machine: encode_domain_name on a name, then   *)
(* parse_domain_name one loop iteration at a time; or parse_domain_name on *)
(* a raw buffer from a start offset                                        *)
(***************************************************************************)
MaxRawLen == 4    \* raw buffers: every byte string up to this length
MaxChain  == 6    \* pointer chains: up to this many pointers in a row
MaxLabels == 2    \* names to encode: up to this many labels

RawAlphabet == {0, 1, 2, 97, 192, 255}

RawBufs == UNION {[1..n -> RawAlphabet] : n \in 0..MaxRawLen}

\* a name at offset 0 followed by n pointers, the first to offset 0 and each
\* later one to the pointer before it
RECURSIVE ChainBuf(_, _)
ChainBuf(tail, n) ==
    IF n = 0 THEN tail
    ELSE LET prev == ChainBuf(tail, n - 1)
             target == IF n = 1 THEN 0 ELSE Len(prev) - 2
         IN  prev \o <<192, target>>

\* what the chain ends in: the root, a label, a pointer to itself, a label
\* that is not UTF-8
ChainTails == {<<0>>, <<1, 97, 0>>, <<192, 0>>, <<1, 255, 0>>}

ChainBufs == {ChainBuf(t, n) : t \in ChainTails, n \in 0..MaxChain}

\* labels of 1, 2, 63 and 64 bytes
LabelInputs == {<<97>>, <<98, 99>>, Rep(97, MaxLabelLen), Rep(97, MaxLabelLen + 1)}

RECURSIVE LabelLists(_)
LabelLists(n) ==
    IF n = 0 THEN {<<>>}
    ELSE LabelLists(n - 1)
         \cup {Append(ls, l) : ls \in {x \in LabelLists(n - 1) : Len(x) = n - 1},
                               l \in LabelInputs}

\* the names handed to encode_domain_name: the root, the dot-joined label
\* lists, and strings that are no such list ("", "a.", ".a", "a..a")
NameInputs ==
    {<<DOT>>}
    \cup {Join(ls) : ls \in LabelLists(MaxLabels) \ {<<>>}}
    \cup {<<>>, <<97, DOT>>, <<DOT, 97>>, <<97, DOT, DOT, 97>>}

InitName ==
    /\ \/ /\ name_in \in NameInputs
          /\ bytes = <<>>
          /\ start = 0
          /\ pd = ParseIdle
       \/ /\ name_in = NoName
          /\ bytes \in RawBufs \cup ChainBufs
          /\ start \in 0..(Len(bytes) + 1)
          /\ pd = ParseStart(start)
    /\ enc = "none"
    /\ ptrs = 0
    /\ first_ptr = -1
    /\ FlagsIdle
    /\ ServerIdle
    /\ UnitIdle

\* encode_domain_name(name_in); when it returns, parse_domain_name is
\* entered on its bytes at offset 0
EncodeName ==
    /\ name_in # NoName
    /\ enc = "none"
    /\ LET e == encode_domain_name(name_in) IN
       /\ enc' = e.kind
       /\ IF e.kind = "ok"
          THEN bytes' = e.bytes /\ pd' = ParseStart(0)
          ELSE UNCHANGED <<bytes, pd>>
    /\ UNCHANGED <<name_in, start, ptrs, first_ptr, flagVars, srvVars, unitVars>>

\* whether the iteration from locals s reads a compression pointer
ReadsPointer(buf, s) ==
    /\ s.offset + 1 < Len(buf)
    /\ At(buf, s.offset) >= 192

\* one iteration of the loop of parse_domain_name
ParseStep ==
    /\ pd.st = "run"
    /\ pd' = ParseIter(bytes, pd)
    /\ ptrs' = IF ReadsPointer(bytes, pd) THEN ptrs + 1 ELSE ptrs
    /\ first_ptr' = IF ReadsPointer(bytes, pd) /\ ptrs = 0 THEN pd.offset ELSE first_ptr
    /\ UNCHANGED <<name_in, enc, bytes, start, flagVars, srvVars, unitVars>>

NextName == EncodeName \/ ParseStep

\* the loop runs on until it returns
SpecName == InitName /\ [][NextName]_vars /\ WF_vars(ParseStep)

(***************************************************************************)
(* The server loop (server.rs) with the forwarding client (forwarder.rs).  *)
(* The loop blocks in recv_from on the listening socket (pc = "recv") and, *)
(* while forwarding, in recv_from on the upstream socket (pc = "await").   *)
(* A handled request leaves the loop body at pc = "answered" (response     *)
(* sent) or pc = "abandoned" (error logged); a panic ends the process      *)
(* (pc = "crashed") and an error of the listening socket ends the loop     *)
(* (pc = "stopped").                                                       *)
(***************************************************************************)
MaxQuestions == 2   \* questions in a client request
MaxAnswers   == 2   \* answer records in an upstream reply

PanicSendFailed == "Failed to send response"
ErrBindUpstream == "Failed to bind upstream socket"
ErrSendUpstream == "Failed to send to resolver"
ErrRecvUpstream == "Failed to receive from resolver"
ErrRecvClient   == "Error receiving data"

\* answers.append(&mut parsed_answers), the new answers put in front
AppendAnswers_inFront(acc, new) == new \o acc

\* answers.append(&mut parsed_answers)
AppendAnswers(acc, new) == acc \o new

\* the per-request state as a record
ServerState ==
    [pc |-> pc, request |-> request, qidx |-> qidx, answers |-> answers,
     sent |-> sent, replies |-> replies, parsed |-> parsed,
     response |-> response, log |-> log, panic |-> panic]

\* a panic: the process ends
Crashed(st, msg) == [st EXCEPT !.pc = "crashed", !.panic = msg]

\* handle_request returned Err(e): run reports it and sends nothing; the
\* accumulated answers are dropped
Abandoned(st, msg) == [st EXCEPT !.pc = "abandoned", !.log = msg, !.answers = <<>>]

\* the end of handle_request and run's send_to: the response header, the
\* response bytes, and the send to the client
Respond(st, client_send_ok) ==
    LET response_header ==
            create_response_header(st.request.header, Len(st.answers) % 65536)
        Built(r) ==
            IF r.kind = "panic" THEN Crashed(st, PanicLabelTooLong)
            ELSE IF ~client_send_ok THEN Crashed(st, PanicSendFailed)
            ELSE [st EXCEPT !.pc = "answered", !.response = r.bytes]
    IN  Built(build_response(response_header, st.request.questions, st.answers))

\* the head of forward_to_resolver's for loop: the next question's query is
\* built and sent, or the loop is over and the answers are returned
Forward(st, upstream_send_ok, client_send_ok) ==
    LET Built(q) ==
            IF q.kind = "panic" THEN Crashed(st, PanicLabelTooLong)
            ELSE IF ~upstream_send_ok THEN Abandoned(st, ErrSendUpstream)
            ELSE [st EXCEPT !.pc = "await", !.sent = Append(@, q.bytes)]
    IN  IF st.qidx = Len(st.request.questions) THEN Respond(st, client_send_ok)
        ELSE Built(build_single_question_query(st.request.header.id,
                                               st.request.questions[st.qidx + 1]))

\* handle_request up to its first blocking call or its end
HandleRequest(st, buf, has_resolver, bind_ok, upstream_send_ok, client_send_ok) ==
    LET \* let (request_header, questions) = parse_request(buf)?
        Parsed(r) ==
            IF r.kind = "panic" THEN Crashed(st, r.err)
            ELSE IF r.kind = "err" THEN Abandoned(st, r.err)
            ELSE LET t == [st EXCEPT !.request = r.val] IN
                 IF has_resolver
                 THEN IF ~bind_ok THEN Abandoned(t, ErrBindUpstream)
                      ELSE Forward(t, upstream_send_ok, client_send_ok)
                 ELSE Respond([t EXCEPT !.answers =
                                            create_response_answers(r.val.questions)],
                              client_send_ok)
    IN  Parsed(parse_request(buf))

\* forward_to_resolver from the return of the upstream recv_from with the
\* datagram buf: decode it, accumulate its answers, go on with the loop
HandleReply(st, buf, upstream_send_ok, client_send_ok) ==
    LET got == [st EXCEPT !.replies = Append(@, buf)]
        \* let mut parsed_answers = parse_answers_from_response(&response_buf[..size])?
        Parsed(r) ==
            IF r.kind = "panic" THEN Crashed(got, r.err)
            ELSE IF r.kind = "err" THEN Abandoned(got, r.err)
            ELSE Forward([got EXCEPT !.answers = AppendAnswers(@, r.val),
                                     !.parsed = Append(@, r.val),
                                     !.qidx = @ + 1],
                         upstream_send_ok, client_send_ok)
    IN  Parsed(parse_answers_from_response(buf))

\* the primed variables from a state record
Becomes(st) ==
    /\ pc' = st.pc
    /\ request' = st.request
    /\ qidx' = st.qidx
    /\ answers' = st.answers
    /\ sent' = st.sent
    /\ replies' = st.replies
    /\ parsed' = st.parsed
    /\ response' = st.response
    /\ log' = st.log
    /\ panic' = st.panic

(***************************************************************************)
(* The datagrams clients send                                              *)
(***************************************************************************)
\* the 12 header bytes
HeaderBytes(id, flags, qd, an, ns, ar) ==
    u16_to_be_bytes(id) \o u16_to_be_bytes(flags) \o u16_to_be_bytes(qd)
    \o u16_to_be_bytes(an) \o u16_to_be_bytes(ns) \o u16_to_be_bytes(ar)

\* a standard query with RD set; a word with every bit but two set (QR=1,
\* OPCODE=5) and non-zero answer, authority and additional counts
RequestHeaders ==
    {[id |-> 4660, flags |-> 256, an |-> 0, ns |-> 0, ar |-> 0],
     [id |-> 48879, flags |-> 45055, an |-> 1, ns |-> 2, ar |-> 3]}

\* the first question's name on the wire: "a", "a.b", the root, a label that
\* is a dot, a label of 64 bytes, a label that is not UTF-8
FirstNames ==
    {<<1, 97, 0>>, <<1, 97, 1, 98, 0>>, <<0>>, <<1, DOT, 0>>,
     <<MaxLabelLen + 1>> \o Rep(97, MaxLabelLen + 1) \o <<0>>, <<1, 255, 0>>}

\* a later question's name: a pointer to the first question's name, or "b"
LaterNames == {<<192, HeaderLen>>, <<1, 98, 0>>}

\* qtype and qclass: A IN, and AAAA CH
FirstTypes == {<<0, 1, 0, 1>>, <<0, 28, 0, 3>>}

RECURSIVE QuestionSections(_)
QuestionSections(k) ==
    IF k = 0 THEN {<<>>}
    ELSE IF k = 1 THEN {n \o t : n \in FirstNames, t \in FirstTypes}
    ELSE {b \o n \o <<0, 1, 0, 1>> : b \in QuestionSections(k - 1), n \in LaterNames}

RequestMessages ==
    UNION {{HeaderBytes(h.id, h.flags, k, h.an, h.ns, h.ar) \o b :
               h \in RequestHeaders, b \in QuestionSections(k)} :
           k \in 0..MaxQuestions}

\* every request message, whole or cut short at any length
Datagrams == UNION {{SubSeq(m, 1, n) : n \in 0..Len(m)} : m \in RequestMessages}

(***************************************************************************)
(* The datagrams that arrive on the upstream socket                        *)
(***************************************************************************)
\* an A record whose name is a pointer to offset 12; a TXT record of the root
AnswerRecords ==
    {<<192, HeaderLen, 0, 1, 0, 1, 0, 0, 0, 60, 0, 4, 1, 2, 3, 4>>,
     <<0, 0, 16, 0, 1, 0, 0, 1, 44, 0, 2, 7, 7>>}

\* the answer sections: up to MaxAnswers records, the two kinds alternating
\* from either of them
AnswerLists ==
    {[i \in 1..n |-> IF i % 2 = 1 THEN r
                     ELSE CHOOSE o \in AnswerRecords : o # r] :
        r \in AnswerRecords, n \in 0..MaxAnswers}

\* a reply to `query`: its id (or another), its question section echoed (or
\* left out), and the answer records
ReplyMessage(id, question_section, records) ==
    \* flags 0x8180: QR, RD, RA
    HeaderBytes(id, 33152, IF question_section = <<>> THEN 0 ELSE 1,
                Len(records), 0, 0)
    \o question_section \o Flatten(records)

QueryId(query) == u16_from_be_bytes(query[1], query[2])

QuerySection(query) == SubSeq(query, HeaderLen + 1, Len(query))

\* what may arrive while `query` is outstanding: well-formed replies to it
\* with any list of answers, a reply with another id, replies without the
\* question section, and a reply cut short at every length
Replies(query) ==
    LET id == QueryId(query)
        qs == QuerySection(query)
        one == CHOOSE r \in AnswerRecords : r[1] = 192
        cut == ReplyMessage(id, qs, <<one>>)
    IN  {ReplyMessage(id, qs, l) : l \in AnswerLists}
        \cup {ReplyMessage((id + 1) % 65536, <<1, 120, 0, 0, 1, 0, 1>>, <<one>>)}
        \cup {ReplyMessage(id, <<>>, <<r>>) : r \in AnswerRecords}
        \cup {SubSeq(cut, 1, n) : n \in 0..(Len(cut) - 1)}

(***************************************************************************)
(* The steps of the server                                                 *)
(***************************************************************************)
InitServer ==
    /\ pc = "recv"
    /\ resolver \in BOOLEAN
    /\ dgram = NoBytes
    /\ request = NoRequest
    /\ qidx = 0
    /\ answers = <<>>
    /\ sent = <<>>
    /\ replies = <<>>
    /\ parsed = <<>>
    /\ response = NoBytes
    /\ log = ""
    /\ panic = ""
    /\ NameIdle
    /\ FlagsIdle
    /\ UnitIdle

\* run receiving a datagram also while forward_to_resolver waits for the
\* upstream
ReceiveRequest_whileAwaiting ==
    /\ pc \in {"recv", "await"}
    /\ \E d \in Datagrams, bind_ok \in BOOLEAN, up_ok \in BOOLEAN, cl_ok \in BOOLEAN :
          /\ dgram' = d
          /\ Becomes(HandleRequest(ServerState, d, resolver, bind_ok, up_ok, cl_ok))
    /\ UNCHANGED <<resolver, nameVars, flagVars, unitVars>>

\* run: recv_from returns a datagram; handle_request runs to the response,
\* to an error, to a panic, or to the first wait for the upstream
ReceiveRequest ==
    /\ pc = "recv"
    /\ \E d \in Datagrams, bind_ok \in BOOLEAN, up_ok \in BOOLEAN, cl_ok \in BOOLEAN :
          /\ dgram' = d
          /\ Becomes(HandleRequest(ServerState, d, resolver, bind_ok, up_ok, cl_ok))
    /\ UNCHANGED <<resolver, nameVars, flagVars, unitVars>>

\* run: recv_from on the listening socket fails; the loop breaks
ReceiveFails ==
    /\ pc = "recv"
    /\ pc' = "stopped"
    /\ log' = ErrRecvClient
    /\ UNCHANGED <<resolver, dgram, request, qidx, answers, sent, replies, parsed,
                   response, panic, nameVars, flagVars, unitVars>>

\* forward_to_resolver: the upstream recv_from returns a datagram
UpstreamReply ==
    /\ pc = "await"
    /\ \E r \in Replies(sent[Len(sent)]), up_ok \in BOOLEAN, cl_ok \in BOOLEAN :
          Becomes(HandleReply(ServerState, r, up_ok, cl_ok))
    /\ UNCHANGED <<resolver, dgram, nameVars, flagVars, unitVars>>

\* forward_to_resolver: the upstream recv_from fails
UpstreamReceiveFails ==
    /\ pc = "await"
    /\ Becomes(Abandoned(ServerState, ErrRecvUpstream))
    /\ UNCHANGED <<resolver, dgram, nameVars, flagVars, unitVars>>

\* run: the loop body is over; back to recv_from with the request's locals
\* gone
NextIteration ==
    /\ pc \in {"answered", "abandoned"}
    /\ pc' = "recv"
    /\ dgram' = NoBytes
    /\ request' = NoRequest
    /\ qidx' = 0
    /\ answers' = <<>>
    /\ sent' = <<>>
    /\ replies' = <<>>
    /\ parsed' = <<>>
    /\ response' = NoBytes
    /\ log' = ""
    /\ UNCHANGED <<resolver, panic, nameVars, flagVars, unitVars>>

Next ==
    \/ ReceiveRequest
    \/ ReceiveFails
    \/ UpstreamReply
    \/ UpstreamReceiveFails
    \/ NextIteration

Spec == InitServer /\ [][Next]_vars

(***************************************************************************)
(* Claims about the name codec, checked under SpecName                     *)
(***************************************************************************)
ParseReturned == pd.st \in {"ok", "err", "panic"}

\* C3: parse_domain_name terminates on every buffer and start offset; it
\* returns the too-many-jumps error exactly when it has followed more than 5
\* compression pointers (a self-referential pointer and a cycle included),
\* so a chain of at most 5 pointers is not refused by the jump guard.
C3_JumpGuard ==
    /\ ptrs <= 6
    /\ (ptrs > 5) <=> (pd.st = "err" /\ pd.err = ErrTooManyJumps)
    /\ pd.st = "ok" => ptrs <= 5

C3_Terminates ==
    /\ []C3_JumpGuard
    /\ (pd.st = "run") ~> ParseReturned

\* a pointer to itself at the start offset, refused at the sixth jump
C3_Witness ==
    /\ pd.st = "err" /\ pd.err = ErrTooManyJumps
    /\ ptrs = 6
    /\ first_ptr = start
    /\ u16_from_be_bytes(At(bytes, start) % 64, At(bytes, start + 1)) = start

\* a chain of exactly 5 pointers is decoded
C3_FiveAccepted == pd.st = "ok" /\ ptrs = 5

\* the name at the start offset is a complete compression pointer
StartsWithPointer ==
    /\ name_in = NoName
    /\ start + 1 < Len(bytes)
    /\ At(bytes, start) >= 192

\* the offset that pointer names
PointerTarget == u16_from_be_bytes(At(bytes, start) % 64, At(bytes, start + 1))

\* C4 as stated: when the name at offset M is a pointer to offset K, decoding
\* at M returns the name that decoding at K returns, and next-offset M + 2.
C4_SameAsTarget ==
    (ParseReturned /\ StartsWithPointer) =>
        LET k == parse_domain_name(bytes, PointerTarget) IN
        k.st = "ok" =>
            /\ pd.st = "ok"
            /\ pd.name = k.name
            /\ pd.final_offset = start + 2

\* C4 as amended: that holds when decoding at K succeeds having followed at
\* most 4 pointers; when decoding at K needs 5 pointers, decoding at M is
\* refused by the jump guard. Whenever a decode that met a pointer succeeds,
\* its next-offset is two bytes past the first pointer met.
C4_SameAsTargetWithinJumps ==
    /\ (ParseReturned /\ StartsWithPointer) =>
          LET k == parse_domain_name(bytes, PointerTarget) IN
          /\ (k.st = "ok" /\ k.jumps <= 4) =>
                /\ pd.st = "ok"
                /\ pd.name = k.name
                /\ pd.final_offset = start + 2
          /\ (k.st = "ok" /\ k.jumps = 5) =>
                (pd.st = "err" /\ pd.err = ErrTooManyJumps)
          /\ pd.st = "ok" => (k.st = "ok" /\ pd.name = k.name)
    /\ (pd.st = "ok" /\ ptrs >= 1) => pd.final_offset = first_ptr + 2

\* a pointer whose target is itself reached through further pointers
C4_Witness ==
    /\ StartsWithPointer
    /\ PointerTarget < start
    /\ pd.st = "ok"
    /\ ptrs >= 3
    /\ pd.final_offset = start + 2
    /\ pd.name = <<97>>

\* a domain name: the root, or non-empty labels joined by dots
IsDomainName(n) ==
    \/ n = <<DOT>>
    \/ /\ n # NoName
       /\ \A i \in 1..Len(Split(n)) : Len(Split(n)[i]) >= 1

\* C5: for a domain name n of labels of at most 63 bytes and at most 255
\* encoded bytes, parse_domain_name(encode_domain_name(n), 0) returns n and
\* the length of the encoding; "." encodes to the single zero byte.
C5_RoundTrip ==
    (/\ IsDomainName(name_in)
     /\ \A i \in 1..Len(Split(name_in)) : Len(Split(name_in)[i]) <= 63) =>
        /\ enc # "panic"
        /\ (enc = "ok" /\ name_in = <<DOT>>) => bytes = <<0>>
        /\ (enc = "ok" /\ ParseReturned /\ Len(bytes) <= 255) =>
              /\ pd.st = "ok"
              /\ pd.name = name_in
              /\ pd.final_offset = Len(bytes)

\* a two-label name with a 63-byte label has made the round trip
C5_Witness ==
    /\ name_in # NoName
    /\ IsDomainName(name_in)
    /\ Len(Split(name_in)) = 2
    /\ Len(Split(name_in)[1]) = 63
    /\ enc = "ok"
    /\ pd.st = "ok"
    /\ pd.name = name_in

(***************************************************************************)
(* create_response_header on every 16-bit flags word                       *)
(***************************************************************************)
MaxAnswerCount == 1   \* answer counts handed to create_response_header

InitFlags ==
    /\ \E f \in 0..65535 :
          req_header = [id |-> 4660, flags |-> f, question_count |-> 1,
                        answer_count |-> 7, authority_count |-> 8,
                        additional_count |-> 9]
    /\ resp_header = NoHeader
    /\ NameIdle
    /\ ServerIdle
    /\ UnitIdle

\* create_response_header(&request_header, answer_count)
CreateResponseHeader ==
    /\ resp_header = NoHeader
    /\ \E n \in 0..MaxAnswerCount :
          resp_header' = create_response_header(req_header, n)
    /\ UNCHANGED <<req_header, nameVars, srvVars, unitVars>>

NextFlags == CreateResponseHeader

SpecFlags == InitFlags /\ [][NextFlags]_vars

\* C10: the response flags have QR=1, OPCODE and RD equal to the request's,
\* AA=TC=RA=0, Z=0, and RCODE 0 when the request opcode is 0 and 4 when it is
\* not, whatever the other bits of the request flags word are.
C10_ResponseFlags ==
    resp_header # NoHeader =>
        LET q  == req_header.flags
            r  == resp_header.flags
            op == (q \div 2048) % 16
        IN  /\ r \div 32768 = 1
            /\ (r \div 2048) % 16 = op
            /\ (r \div 1024) % 2 = 0
            /\ (r \div 512) % 2 = 0
            /\ (r \div 256) % 2 = (q \div 256) % 2
            /\ (r \div 128) % 2 = 0
            /\ (r \div 16) % 8 = 0
            /\ r % 16 = (IF op = 0 THEN 0 ELSE 4)

\* a request with every flag bit set is answered with 0xF904
C10_Witness ==
    /\ req_header.flags = 65535
    /\ resp_header # NoHeader
    /\ resp_header.flags = 63748

(***************************************************************************)
(* Claims about the server, checked under Spec                             *)
(***************************************************************************)
\* the id of the datagram being handled
RequestId == u16_from_be_bytes(dgram[1], dgram[2])

\* the bytes of a list of questions, one after the other
EncodedQuestions(questions) ==
    Flatten([i \in 1..Len(questions) |-> DnsQuestion_to_bytes(questions[i]).bytes])

\* the bytes of a list of answers, one after the other
EncodedAnswers(ans) ==
    Flatten([i \in 1..Len(ans) |-> DnsAnswer_to_bytes(ans[i]).bytes])

\* C1: handling a datagram never ends the process: whatever bytes the client
\* sent, the server does not panic on them (a failure to send the response
\* is not counted against the datagram)
C1_DatagramNeverCrashes == pc = "crashed" => panic = PanicSendFailed

\* C2: a request cut short inside its 12 header bytes makes parse_request
\* return an error: the handler gives the request up and logs the error
C2_ShortHeaderIsError ==
    (dgram # NoBytes /\ Len(dgram) < HeaderLen) => (pc = "abandoned" /\ log # "")

\* C6: one upstream exchange per question in question order: query i is the
\* query of question i and is sent only once the replies to the queries
\* before it are decoded; on success there is one exchange per question, the
\* answers are the decoded answers of reply 1, reply 2, ... in that order,
\* and their encodings are the answer section of the response
C6_OneExchangePerQuestion ==
    /\ Len(sent) <= Len(request.questions)
    /\ Len(parsed) <= Len(replies)
    /\ Len(replies) <= Len(sent)
    /\ Len(sent) <= Len(parsed) + 1
    /\ \A i \in 1..Len(sent) :
          QuerySection(sent[i]) = DnsQuestion_to_bytes(request.questions[i]).bytes
    /\ \A i \in 1..Len(parsed) :
          parsed[i] = parse_answers_from_response(replies[i]).val
    /\ pc = "await" => Len(sent) = Len(parsed) + 1
    /\ (resolver /\ pc = "answered") =>
          /\ Len(sent) = Len(request.questions)
          /\ Len(parsed) = Len(request.questions)
          /\ answers = Flatten(parsed)
          /\ response = SubSeq(response, 1, HeaderLen)
                        \o EncodedQuestions(request.questions)
                        \o EncodedAnswers(Flatten(parsed))

\* two questions forwarded and answered, the two replies carrying different,
\* non-empty answer lists
C6_Witness ==
    /\ resolver
    /\ pc = "answered"
    /\ Len(parsed) = 2
    /\ parsed[1] # <<>>
    /\ parsed[2] # <<>>
    /\ parsed[1] # parsed[2]
    /\ Len(answers) = Len(parsed[1]) + Len(parsed[2])

\* C7: every query sent upstream carries the request's id, the flags 0x0100,
\* the counts 1, 0, 0, 0, and after the 12 header bytes the encoding of its
\* one question and nothing else
C7_QueryShape ==
    \A i \in 1..Len(sent) :
        LET query == sent[i]
            q == DnsQuestion_from_bytes(query, HeaderLen)
        IN  /\ Len(query) >= HeaderLen
            /\ QueryId(query) = RequestId
            /\ SubSeq(query, 3, 4) = <<1, 0>>
            /\ SubSeq(query, 5, HeaderLen) = <<0, 1, 0, 0, 0, 0, 0, 0>>
            /\ QuerySection(query) = DnsQuestion_to_bytes(request.questions[i]).bytes
            /\ q.kind = "ok"
            /\ q.next = Len(query)
            /\ q.val.qtype = request.questions[i].qtype
            /\ q.val.qclass = request.questions[i].qclass

\* the second query of a request whose flags word is not 0x0100 and whose
\* second question names its host through a pointer
C7_Witness ==
    /\ Len(sent) = 2
    /\ RequestId = 48879
    /\ SubSeq(dgram, 3, 4) # <<1, 0>>
    /\ request.questions[2].name = request.questions[1].name

\* C8: a reply that arrived and could not be decoded makes forwarding return
\* an error: the request is given up with the error logged, the answers of
\* the earlier questions are dropped and nothing is sent to the client
C8_UndecodableReplyIsError ==
    Len(replies) > Len(parsed) =>
        /\ pc = "abandoned"
        /\ log # ""
        /\ answers = <<>>
        /\ response = NoBytes

\* C9: the header of every response has the request's id and question
\* count, the number of answers as its answer count, and zero authority and
\* additional counts; the response holds exactly that many question records
\* and answer records after the header
C9_ResponseCounts ==
    pc = "answered" =>
        LET h == DnsHeader_from_bytes(response)
            req == DnsHeader_from_bytes(dgram)
            qs == ParseQuestions(response, HeaderLen, h.val.question_count, <<>>)
            as == ParseAnswers(response, qs.next, h.val.answer_count, <<>>)
        IN  /\ h.kind = "ok"
            /\ h.val.id = req.val.id
            /\ h.val.question_count = req.val.question_count
            /\ h.val.question_count = Len(request.questions)
            /\ h.val.answer_count = Len(answers)
            /\ h.val.authority_count = 0
            /\ h.val.additional_count = 0
            /\ qs.kind = "ok"
            /\ Len(qs.val) = h.val.question_count
            /\ as.kind = "ok"
            /\ Len(as.val) = h.val.answer_count
            /\ as.next = Len(response)

\* a response to a request whose header carries non-zero answer, authority
\* and additional counts, with two questions and three answers
C9_Witness ==
    /\ pc = "answered"
    /\ DnsHeader_from_bytes(dgram).val.answer_count = 1
    /\ DnsHeader_from_bytes(dgram).val.additional_count = 3
    /\ Len(request.questions) = 2
    /\ Len(answers) = 3

\* C12: one request at a time. A datagram is taken from the listening
\* socket only when no request is in progress; while a request is being
\* forwarded exactly one query is outstanding when the server waits, never
\* more than one; and the wait ends only with a datagram or an error on the
\* upstream socket, so nothing else is received while it lasts
C12_OneAtATime ==
    /\ [](Len(sent) <= Len(replies) + 1)
    /\ [](pc = "await" => (dgram # NoBytes /\ Len(sent) = Len(replies) + 1))
    /\ [](pc = "recv" => (dgram = NoBytes /\ sent = <<>> /\ response = NoBytes))
    /\ [][(dgram' # dgram /\ dgram' # NoBytes) => (pc = "recv" /\ dgram = NoBytes)]_vars
    /\ [][(dgram' # dgram /\ dgram' = NoBytes) => pc \in {"answered", "abandoned"}]_vars
    /\ [][pc = "await" =>
            /\ dgram' = dgram
            /\ request' = request
            /\ pc' # "recv"
            /\ pc' # "await" => (Len(replies') = Len(replies) + 1 \/ log' = ErrRecvUpstream)
            /\ pc' = "await" => (Len(replies') = Len(replies) + 1
                                 /\ Len(sent') = Len(sent) + 1)]_vars

\* the server waits for the reply to the second query of a request
C12_Witness ==
    /\ pc = "await"
    /\ Len(request.questions) = 2
    /\ Len(sent) = 2
    /\ Len(replies) = 1

\* C13: with no resolver, the response to a parsed request of n questions
\* has n answers and answer count n; answer i is an A record of class IN
\* for the name of question i, with TTL 60 and the 4 bytes 8.8.8.8 as
\* rdata, whatever type and class were asked; the answers decoded from the
\* response bytes are these records, named as the response's questions
C13_LocalAnswers ==
    (~resolver /\ pc = "answered") =>
        LET n == Len(request.questions)
            h == DnsHeader_from_bytes(response)
            qs == ParseQuestions(response, HeaderLen, n, <<>>)
            dec == parse_answers_from_response(response)
        IN  /\ request = parse_request(dgram).val
            /\ Len(answers) = n
            /\ \A i \in 1..n :
                  answers[i] = [name |-> request.questions[i].name, rtype |-> 1,
                                rclass |-> 1, ttl |-> 60, rdlength |-> 4,
                                rdata |-> <<8, 8, 8, 8>>]
            /\ h.val.answer_count = n
            /\ response = SubSeq(response, 1, HeaderLen)
                          \o EncodedQuestions(request.questions)
                          \o EncodedAnswers(answers)
            /\ qs.kind = "ok"
            /\ dec.kind = "ok"
            /\ Len(dec.val) = n
            /\ \A i \in 1..n :
                  dec.val[i] = [name |-> qs.val[i].name, rtype |-> 1, rclass |-> 1,
                                ttl |-> 60, rdlength |-> 4, rdata |-> <<8, 8, 8, 8>>]

\* a local response to two questions, the first asking AAAA in class CH
C13_Witness ==
    /\ ~resolver
    /\ pc = "answered"
    /\ Len(request.questions) = 2
    /\ request.questions[1].qtype = 28
    /\ request.questions[1].qclass = 3
    /\ Len(answers) = 2

\* C15: the names of a parsed request can be encoded again: neither
\* build_response nor build_single_question_query reaches the
\* "Label too long" panic of encode_domain_name
C15_ParsedNamesEncode == panic # PanicLabelTooLong

\* the reason C15 gives: every dot-separated label of every question name
\* of a parsed request is at most 63 bytes long
C15_DecodedLabelsFit ==
    \A i \in 1..Len(request.questions) :
        \A k \in 1..Len(Split(request.questions[i].name)) :
            Len(Split(request.questions[i].name)[k]) <= 63

\* whether the `left` names of the questions from `offset` on are written
\* without a compression pointer
RECURSIVE NamesUncompressed(_, _, _)
NamesUncompressed(buf, offset, left) ==
    LET Name(s) ==
            /\ s.st = "ok"
            /\ ~s.jumped
            /\ NamesUncompressed(buf, s.final_offset + QuestionFixedLen, left - 1)
    IN  IF left = 0 THEN TRUE ELSE Name(parse_domain_name(buf, offset))

\* C16: for an answered request whose question names use no compression
\* pointer, the bytes of the response between the header and the first
\* answer are the bytes of the request's question section
C16_QuestionSectionKept ==
    (pc = "answered" /\ NamesUncompressed(dgram, HeaderLen, Len(request.questions))) =>
        SubSeq(response, HeaderLen + 1,
               ParseQuestions(response, HeaderLen, Len(request.questions), <<>>).next)
        = SubSeq(dgram, HeaderLen + 1, parse_request(dgram).next)

\* C17: every datagram whose answers went into a response sent to the
\* client has the id of the query it was taken as the reply to and carries
\* that query's question
C17_RepliesMatchQueries ==
    pc = "answered" =>
        \A i \in 1..Len(parsed) :
            /\ QueryId(replies[i]) = QueryId(sent[i])
            /\ DnsHeader_from_bytes(replies[i]).val.question_count = 1
            /\ SubSeq(replies[i], HeaderLen + 1, HeaderLen + Len(QuerySection(sent[i])))
               = QuerySection(sent[i])

\* the id half of C17 alone: no datagram with another id is decoded as the
\* reply to a query
C17_ReplyIdsMatch ==
    \A i \in 1..Len(parsed) : QueryId(replies[i]) = QueryId(sent[i])

(***************************************************************************)
(* DnsAnswer::from_bytes and the constructors of DnsAnswer, each called    *)
(* once on its own                                                         *)
(***************************************************************************)
MaxRdata == 2   \* RDATA bytes present in a record handed to from_bytes

\* the RDATA lengths handed to DnsAnswer::new: none, one byte, an IPv4 and
\* an IPv6 address, the largest u16, and one more than that
RdataLens == {0, 1, 4, 16, 65535, 65536}

\* a record on the wire: name, type A, class IN, TTL 60, the declared
\* RDLENGTH, and `present` bytes of RDATA
RecordBytes(name, declared, present) ==
    name \o <<0, 1, 0, 1, 0, 0, 0, 60>> \o u16_to_be_bytes(declared) \o Rep(7, present)

\* records whose declared RDLENGTH is below, at or above the bytes present,
\* each whole or cut short at any length
RecordBufs ==
    UNION {{SubSeq(b, 1, n) : n \in 0..Len(b)} :
           b \in {RecordBytes(name, declared, present) :
                     name \in {<<0>>, <<1, 97, 0>>},
                     declared \in 0..(MaxRdata + 1) \cup {65535},
                     present \in 0..MaxRdata}}

\* a call on DnsAnswer with its arguments
AnswerCall(op, buf, name, rtype, ttl, rdata) ==
    [op |-> op, buf |-> buf, name |-> name, rtype |-> rtype, ttl |-> ttl,
     rdata |-> rdata]

AnswerCalls ==
    {AnswerCall("from_bytes", b, <<>>, 0, 0, <<>>) : b \in RecordBufs}
    \cup {AnswerCall("new", <<>>, name, rtype, ttl, Rep(7, n)) :
             name \in {<<97>>, <<DOT>>}, rtype \in {RecordType_A, 16},
             ttl \in {0, LocalTtl}, n \in RdataLens}
    \cup {AnswerCall("new_a_record", <<>>, name, RecordType_A, ttl, ip) :
             name \in {<<97>>, <<DOT>>}, ttl \in {0, LocalTtl},
             ip \in {LocalAddress, <<0, 0, 0, 0>>}}
    \cup {AnswerCall("new_aaaa_record", <<>>, name, RecordType_AAAA, ttl, Rep(b, 16)) :
             name \in {<<97>>, <<DOT>>}, ttl \in {0, LocalTtl}, b \in {0, 255}}

InitAnswer ==
    /\ rec_in \in AnswerCalls
    /\ rec_out = NoCall
    /\ flags_in = NoCall
    /\ flags_mid = NoCall
    /\ flags_out = NoCall
    /\ NameIdle
    /\ FlagsIdle
    /\ ServerIdle

\* DnsAnswer::from_bytes(bytes, 0)
AnswerFromBytes ==
    /\ rec_in.op = "from_bytes"
    /\ rec_out.op = "none"
    /\ rec_out' = [op |-> rec_in.op, res |-> DnsAnswer_from_bytes(rec_in.buf, 0)]
    /\ UNCHANGED <<rec_in, flags_in, flags_mid, flags_out, nameVars, flagVars, srvVars>>

\* DnsAnswer::new(name, rtype, IN, ttl, rdata)
AnswerNew ==
    /\ rec_in.op = "new"
    /\ rec_out.op = "none"
    /\ rec_out' = [op |-> rec_in.op,
                   res |-> Ok(DnsAnswer_new(rec_in.name, rec_in.rtype, RecordClass_IN,
                                            rec_in.ttl, rec_in.rdata), 0)]
    /\ UNCHANGED <<rec_in, flags_in, flags_mid, flags_out, nameVars, flagVars, srvVars>>

\* DnsAnswer::new_a_record(name, ttl, ip)
AnswerNewA ==
    /\ rec_in.op = "new_a_record"
    /\ rec_out.op = "none"
    /\ rec_out' = [op |-> rec_in.op,
                   res |-> Ok(new_a_record(rec_in.name, rec_in.ttl, rec_in.rdata), 0)]
    /\ UNCHANGED <<rec_in, flags_in, flags_mid, flags_out, nameVars, flagVars, srvVars>>

\* DnsAnswer::new_aaaa_record(name, ttl, ip)
AnswerNewAAAA ==
    /\ rec_in.op = "new_aaaa_record"
    /\ rec_out.op = "none"
    /\ rec_out' = [op |-> rec_in.op,
                   res |-> Ok(new_aaaa_record(rec_in.name, rec_in.ttl, rec_in.rdata), 0)]
    /\ UNCHANGED <<rec_in, flags_in, flags_mid, flags_out, nameVars, flagVars, srvVars>>

NextAnswer == AnswerFromBytes \/ AnswerNew \/ AnswerNewA \/ AnswerNewAAAA

SpecAnswer == InitAnswer /\ [][NextAnswer]_vars

\* the RDLENGTH a record handed to from_bytes declares, when the buffer
\* holds its ten fixed bytes
DeclaredRdlength(buf) ==
    LET after_name == NameResult(buf, 0).next
    IN  u16_from_be_bytes(At(buf, after_name + 8), At(buf, after_name + 9))

\* C11: every DnsAnswer that from_bytes or a constructor returns has
\* rdlength equal to the number of bytes of its rdata
C11_RdlengthIsLength ==
    (rec_out.op # "none" /\ rec_out.res.kind = "ok") =>
        rec_out.res.val.rdlength = Len(rec_out.res.val.rdata)

\* the part of C11 that holds: what from_bytes returns has rdlength bytes of
\* rdata, and a record that declares more RDATA than the buffer holds is
\* refused with the RDATA error
C11_FromBytesKeepsLength ==
    rec_out.op = "from_bytes" =>
        /\ rec_out.res.kind = "ok" =>
              rec_out.res.val.rdlength = Len(rec_out.res.val.rdata)
        /\ rec_out.res.kind # "panic"
        /\ (/\ NameResult(rec_in.buf, 0).kind = "ok"
            /\ NameResult(rec_in.buf, 0).next + AnswerFixedLen <= Len(rec_in.buf)
            /\ NameResult(rec_in.buf, 0).next + AnswerFixedLen + DeclaredRdlength(rec_in.buf)
                  > Len(rec_in.buf))
           => (rec_out.res.kind = "err" /\ rec_out.res.err = ErrRdataTooSmall)

\* from_bytes has refused a record that declares more RDATA than is there
C11_RefusedOverlong ==
    /\ rec_out.op = "from_bytes"
    /\ rec_out.res.kind = "err"
    /\ rec_out.res.err = ErrRdataTooSmall
    /\ Len(rec_in.buf) > 1 + AnswerFixedLen

(***************************************************************************)
(* DnsFlags::from_u16 and DnsFlags::to_u16, one after the other in either  *)
(* order, on every flags word and every DnsFlags value in range            *)
(***************************************************************************)
\* the DnsFlags values with opcode < 16, z < 8 and rcode < 16
FlagsValues ==
    [qr : BOOLEAN, opcode : 0..15, aa : BOOLEAN, tc : BOOLEAN, rd : BOOLEAN,
     ra : BOOLEAN, z : 0..7, rcode : 0..15]

\* a flags word, and a DnsFlags value, as what a conversion takes or returns
FlagsWord(x) == [op |-> "word", word |-> x, flags |-> DnsFlags_from_u16(0)]

FlagsValue(f) == [op |-> "flags", word |-> 0, flags |-> f]

InitFlagsCodec ==
    /\ \/ \E x \in 0..65535 : flags_in = FlagsWord(x)
       \/ \E f \in FlagsValues : flags_in = FlagsValue(f)
    /\ flags_mid = NoCall
    /\ flags_out = NoCall
    /\ rec_in = NoCall
    /\ rec_out = NoCall
    /\ NameIdle
    /\ FlagsIdle
    /\ ServerIdle

\* DnsFlags::from_u16 on the word given, or on the word to_u16 returned
FlagsFromU16 ==
    /\ \/ /\ flags_in.op = "word"
          /\ flags_mid.op = "none"
          /\ flags_mid' = FlagsValue(DnsFlags_from_u16(flags_in.word))
          /\ UNCHANGED flags_out
       \/ /\ flags_mid.op = "word"
          /\ flags_out.op = "none"
          /\ flags_out' = FlagsValue(DnsFlags_from_u16(flags_mid.word))
          /\ UNCHANGED flags_mid
    /\ UNCHANGED <<flags_in, rec_in, rec_out, nameVars, flagVars, srvVars>>

\* DnsFlags::to_u16 on the value given, or on the value from_u16 returned
FlagsToU16 ==
    /\ \/ /\ flags_in.op = "flags"
          /\ flags_mid.op = "none"
          /\ flags_mid' = FlagsWord(DnsFlags_to_u16(flags_in.flags))
          /\ UNCHANGED flags_out
       \/ /\ flags_mid.op = "flags"
          /\ flags_out.op = "none"
          /\ flags_out' = FlagsWord(DnsFlags_to_u16(flags_mid.flags))
          /\ UNCHANGED flags_mid
    /\ UNCHANGED <<flags_in, rec_in, rec_out, nameVars, flagVars, srvVars>>

NextFlagsCodec == FlagsFromU16 \/ FlagsToU16

SpecFlagsCodec == InitFlagsCodec /\ [][NextFlagsCodec]_vars

\* the word that holds the fields of f in the layout QR(1) OPCODE(4) AA(1)
\* TC(1) RD(1) RA(1) Z(3) RCODE(4), most significant bit first
LayoutWord(f) ==
    LET B(b) == IF b THEN 1 ELSE 0
    IN  ((((((B(f.qr) * 16 + f.opcode) * 2 + B(f.aa)) * 2 + B(f.tc)) * 2 + B(f.rd)) * 2
           + B(f.ra)) * 8 + f.z) * 16 + f.rcode

\* C14: from_u16 and to_u16 are inverse to each other over that layout:
\* a word decoded and encoded again is the same word, a value in range
\* encoded and decoded again is the same value, and the word and the value
\* of each conversion agree with the layout
C14_MutuallyInverse ==
    /\ flags_out.op # "none" => flags_out = flags_in
    /\ flags_mid.op = "flags" =>
          (flags_mid.flags \in FlagsValues /\ LayoutWord(flags_mid.flags) = flags_in.word)
    /\ flags_mid.op = "word" =>
          (flags_mid.word \in 0..65535 /\ flags_mid.word = LayoutWord(flags_in.flags))

\* a word with all three Z bits set has gone through from_u16 and to_u16
C14_WitnessWord ==
    /\ flags_in.op = "word"
    /\ flags_in.word = 33136
    /\ flags_out.op = "word"

\* a value with non-zero z has gone through to_u16 and from_u16
C14_Witness ==
    /\ flags_in.op = "flags"
    /\ flags_in.flags.z = 5
    /\ flags_in.flags.opcode = 15
    /\ flags_in.flags.rcode = 9
    /\ flags_in.flags.qr
    /\ ~flags_in.flags.aa
    /\ flags_out.op = "flags"

=============================================================================
